---------------------------- MODULE Spec2Model ----------------------------
(***************************************************************************)
(* A model of the Hangul structural analyzer (src/hangul.js).              *)
(*                                                                         *)
(* Representation of JavaScript values:                                    *)
(*   - a character is its UTF-16 code unit (what charCodeAt(0) returns);   *)
(*   - a one-character string used as a jamo symbol is its code unit, the  *)
(*     empty string '' is EMPTY and null/undefined is NIL;                 *)
(*   - a text is a sequence of characters;                                 *)
(*   - an object-valued result that may be null is a record, null being    *)
(*     the record NULL;                                                    *)
(*   - a fraction is kept exact as numerator and denominator, and a value  *)
(*     rounded to n decimals is the integer number of 10^-n units.         *)
(***************************************************************************)
EXTENDS Integers, Sequences, FiniteSets, TLC

VARIABLES pc, ch, d, args, composed, text, textB, result, fp, fpA, fpB, sim, simBA,
          rhymes, wordPatterns, structure, argv, exitCode, stdout, stderr

vars == <<pc, ch, d, args, composed, text, textB, result, fp, fpA, fpB, sim, simBA,
          rhymes, wordPatterns, structure, argv, exitCode, stdout, stderr>>

(***************************************************************************)
(* Jamo tables                                                             *)
(***************************************************************************)
EMPTY == 0

NIL == -1

NULL == [null |-> TRUE]

CHOSEONG ==
  <<12593, 12594, 12596, 12599, 12600, 12601, 12609, 12610, 12611, 12613,
    12614, 12615, 12616, 12617, 12618, 12619, 12620, 12621, 12622>>

JUNGSEONG ==
  <<12623, 12624, 12625, 12626, 12627, 12628, 12629, 12630, 12631, 12632,
    12633, 12634, 12635, 12636, 12637, 12638, 12639, 12640, 12641, 12642,
    12643>>

JONGSEONG ==
  <<EMPTY, 12593, 12594, 12595, 12596, 12597, 12598, 12599, 12601, 12602,
    12603, 12604, 12605, 12606, 12607, 12608, 12609, 12610, 12612, 12613,
    12614, 12615, 12616, 12618, 12619, 12620, 12621, 12622>>

VOWEL_BRIGHT ==
  {12623, 12624, 12625, 12626, 12631, 12632, 12633, 12634, 12635}

VOWEL_DARK ==
  {12627, 12628, 12629, 12630, 12636, 12637, 12638, 12639, 12640}

VOWEL_NEUTRAL == {12641, 12642, 12643}

SYLLABLE_BASE == 44032

SYLLABLE_END == 55203

MaxCodeUnit == 65535

(***************************************************************************)
(* Array helpers: 0-based indexing and Array.prototype.indexOf             *)
(***************************************************************************)
Range(s) == {s[i] : i \in 1..Len(s)}

At(tbl, i) == tbl[i + 1]

IndexOf(tbl, x) ==
  IF \E i \in 1..Len(tbl) : tbl[i] = x
  THEN (CHOOSE i \in 1..Len(tbl) :
          tbl[i] = x /\ \A j \in 1..(i - 1) : tbl[j] # x) - 1
  ELSE -1

Truthy(s) == s # NIL /\ s # EMPTY

(***************************************************************************)
(* Codec                                                                   *)
(***************************************************************************)
isSyllableExclusiveEnd(c) == c >= SYLLABLE_BASE /\ c < SYLLABLE_END

isSyllable(c) == c >= SYLLABLE_BASE /\ c <= SYLLABLE_END

decompose(c) ==
  IF ~isSyllable(c) THEN NULL
  ELSE LET code == c - SYLLABLE_BASE
           jongIdx == code % 28
           jungIdx == ((code - jongIdx) \div 28) % 21
           choIdx == ((code - jongIdx) \div 28) \div 21
       IN [syllable |-> c,
           cho |-> At(CHOSEONG, choIdx),
           jung |-> At(JUNGSEONG, jungIdx),
           jong |-> IF Truthy(At(JONGSEONG, jongIdx))
                    THEN At(JONGSEONG, jongIdx) ELSE NIL,
           choIdx |-> choIdx, jungIdx |-> jungIdx, jongIdx |-> jongIdx,
           hasJong |-> jongIdx # 0]

composeStrictFinal(cho, jung, jong) ==
  LET choIdx == IndexOf(CHOSEONG, cho)
      jungIdx == IndexOf(JUNGSEONG, jung)
      jongIdx == IndexOf(JONGSEONG, jong)
  IN IF choIdx < 0 \/ jungIdx < 0 \/ jongIdx < 0 THEN NIL
     ELSE SYLLABLE_BASE + (choIdx * 21 + jungIdx) * 28 + jongIdx

composeLenientFinal(cho, jung, jong) ==
  LET choIdx == IndexOf(CHOSEONG, cho)
      jungIdx == IndexOf(JUNGSEONG, jung)
      jongIdx == IF IndexOf(JONGSEONG, jong) < 0 THEN 0
                 ELSE IndexOf(JONGSEONG, jong)
  IN IF choIdx < 0 \/ jungIdx < 0 THEN NIL
     ELSE SYLLABLE_BASE + (choIdx * 21 + jungIdx) * 28 + jongIdx

compose(cho, jung, jong) ==
  LET choIdx == IndexOf(CHOSEONG, cho)
      jungIdx == IndexOf(JUNGSEONG, jung)
      jongIdx == IF Truthy(jong) THEN IndexOf(JONGSEONG, jong) ELSE 0
  IN IF choIdx < 0 \/ jungIdx < 0 \/ jongIdx < 0 THEN NIL
     ELSE SYLLABLE_BASE + (choIdx * 21 + jungIdx) * 28 + jongIdx

(***************************************************************************)
(* Inputs of the codec: every UTF-16 code unit; every jamo of the three    *)
(* tables, the empty string, null, a blank and a Latin letter.             *)
(***************************************************************************)
CodeUnits == 0..MaxCodeUnit

SymbolInputs ==
  Range(CHOSEONG) \cup Range(JUNGSEONG) \cup Range(JONGSEONG)
    \cup {NIL, EMPTY, 32, 65}

Init ==
  /\ pc = "idle"
  /\ ch = EMPTY
  /\ d = NULL
  /\ args = <<NIL, NIL, NIL>>
  /\ composed = NIL
  /\ text = <<>>
  /\ textB = <<>>
  /\ result = NULL
  /\ fp = NULL
  /\ fpA = NULL
  /\ fpB = NULL
  /\ sim = NULL
  /\ simBA = NULL
  /\ rhymes = <<>>
  /\ wordPatterns = <<>>
  /\ structure = <<>>
  /\ argv = <<>>
  /\ exitCode = NIL
  /\ stdout = <<>>
  /\ stderr = <<>>

\* decompose(c) called on a character
CallDecompose ==
  /\ pc = "idle"
  /\ \E c \in CodeUnits :
       /\ ch' = c
       /\ d' = decompose(c)
  /\ pc' = "decomposed"
  /\ UNCHANGED <<args, composed, text, textB, result, fp, fpA, fpB, sim, simBA,
               rhymes, wordPatterns, structure, argv, exitCode, stdout, stderr>>

\* compose(d.cho, d.jung, d.jong) on the record decompose returned
RoundTrip ==
  /\ pc = "decomposed"
  /\ d # NULL
  /\ args' = <<d.cho, d.jung, d.jong>>
  /\ composed' = compose(d.cho, d.jung, d.jong)
  /\ pc' = "roundtrip"
  /\ UNCHANGED <<ch, d, text, textB, result, fp, fpA, fpB, sim, simBA,
               rhymes, wordPatterns, structure, argv, exitCode, stdout, stderr>>

\* compose(cho, jung, jong) called on arbitrary symbols
CallCompose ==
  /\ pc = "idle"
  /\ \E cho \in SymbolInputs, jung \in SymbolInputs, jong \in SymbolInputs :
       /\ args' = <<cho, jung, jong>>
       /\ composed' = compose(cho, jung, jong)
  /\ pc' = "composed"
  /\ UNCHANGED <<ch, d, text, textB, result, fp, fpA, fpB, sim, simBA,
               rhymes, wordPatterns, structure, argv, exitCode, stdout, stderr>>

NextCodec == CallDecompose \/ RoundTrip \/ CallCompose

SpecCodec == Init /\ [][NextCodec]_vars

(***************************************************************************)
(* C1: round-trip law. For every code point in [0xAC00, 0xD7A3], composing *)
(* the initial, medial and final symbols that decompose returned (the      *)
(* final being null when there is none) yields the same character.         *)
(***************************************************************************)
C1_RoundTrip ==
  /\ (pc = "decomposed" /\ ch >= 44032 /\ ch <= 55203) => d # NULL
  /\ pc = "roundtrip" => composed = ch

C1_Witness ==
  pc = "roundtrip" /\ d.jong = NIL /\ ch = 44032 + 588 /\ composed = ch

(***************************************************************************)
(* C2 (as stated): compose is absent only when the initial or the medial   *)
(* is not in its table; a final that is empty, blank or not in the final   *)
(* table counts as final index 0.                                          *)
(***************************************************************************)
C2_Original ==
  pc = "composed" =>
    LET ci == IndexOf(CHOSEONG, args[1])
        ji == IndexOf(JUNGSEONG, args[2])
        fi == IndexOf(JONGSEONG, args[3])
    IN /\ composed = NIL <=> (ci < 0 \/ ji < 0)
       /\ (ci >= 0 /\ ji >= 0) =>
            composed = 44032 + (ci * 21 + ji) * 28 + (IF fi < 0 THEN 0 ELSE fi)

(***************************************************************************)
(* C2 (amended): compose is absent iff the initial or the medial is not in *)
(* its table, or the final is a non-empty string that is not in the final  *)
(* table; an empty or null final is final index 0; in every other case the *)
(* result is 0xAC00 + (initialIndex*21 + medialIndex)*28 + finalIndex.     *)
(***************************************************************************)
C2_Amended ==
  pc = "composed" =>
    LET ci == IndexOf(CHOSEONG, args[1])
        ji == IndexOf(JUNGSEONG, args[2])
        fi == IndexOf(JONGSEONG, args[3])
        noFinal == args[3] = NIL \/ args[3] = EMPTY
        absent == ci < 0 \/ ji < 0 \/ (~noFinal /\ fi < 0)
    IN /\ composed = NIL <=> absent
       /\ ~absent =>
            composed = 44032 + (ci * 21 + ji) * 28 + (IF noFinal THEN 0 ELSE fi)

C2_Witness ==
  /\ pc = "composed"
  /\ args = <<12593, 12623, 32>>
  /\ composed = NIL

(***************************************************************************)
(* C3: decompose(c) is absent iff c is outside [0xAC00, 0xD7A3]; otherwise *)
(* finalIndex = code mod 28, medialIndex = floor(code/28) mod 21,          *)
(* initialIndex = floor(code/28/21), each within its table, the symbols    *)
(* are the table entries, and hasFinal iff finalIndex # 0 iff the final    *)
(* symbol is present.                                                      *)
(***************************************************************************)
C3_Decompose ==
  pc = "decomposed" =>
    /\ d = NULL <=> (ch < 44032 \/ ch > 55203)
    /\ d # NULL =>
         LET code == ch - 44032
         IN /\ d.jongIdx = code % 28
            /\ d.jungIdx = (code \div 28) % 21
            /\ d.choIdx = (code \div 28) \div 21
            /\ d.jongIdx \in 0..27
            /\ d.jungIdx \in 0..20
            /\ d.choIdx \in 0..18
            /\ d.cho = CHOSEONG[d.choIdx + 1]
            /\ d.jung = JUNGSEONG[d.jungIdx + 1]
            /\ d.hasJong <=> d.jongIdx # 0
            /\ d.hasJong <=> d.jong # NIL
            /\ d.hasJong => d.jong = JONGSEONG[d.jongIdx + 1]

C3_Witness ==
  /\ pc = "decomposed"
  /\ ch = 55203
  /\ d # NULL
  /\ d.choIdx = 18 /\ d.jungIdx = 20 /\ d.jongIdx = 27
  /\ d.hasJong

(***************************************************************************)
(* Analyzer. A frequency object ({symbol: count}, in insertion order) is a *)
(* sequence of <<symbol, count>> entries.                                  *)
(***************************************************************************)
HasKey(obj, k) == \E i \in 1..Len(obj) : obj[i][1] = k

KeyPos(obj, k) == CHOOSE i \in 1..Len(obj) : obj[i][1] = k

\* obj[k] || 0
CountOf(obj, k) == IF HasKey(obj, k) THEN obj[KeyPos(obj, k)][2] ELSE 0

\* obj[k] = (obj[k] || 0) + 1
Incr(obj, k) ==
  IF HasKey(obj, k)
  THEN [obj EXCEPT ![KeyPos(obj, k)] = <<k, obj[KeyPos(obj, k)][2] + 1>>]
  ELSE Append(obj, <<k, 1>>)

Keys(obj) == [i \in 1..Len(obj) |-> obj[i][1]]

\* entries.sort((a, b) => b[1] - a[1]) is a stable sort: an entry goes
\* after every entry whose count is not smaller.
InsertByValue(sorted, e) ==
  LET after == {i \in 1..Len(sorted) : sorted[i][2] >= e[2]}
      n == Cardinality(after)
  IN SubSeq(sorted, 1, n) \o <<e>> \o SubSeq(sorted, n + 1, Len(sorted))

RECURSIVE sortLoop(_, _, _)
sortLoop(obj, i, sorted) ==
  IF i > Len(obj) THEN sorted
  ELSE sortLoop(obj, i + 1, InsertByValue(sorted, obj[i]))

sortByValueUnsorted(obj) == obj

\* ties broken by symbol instead of by insertion order
sortByValueByKey(obj) ==
  LET byKey == {i \in 1..Len(obj) : TRUE}
      rank(i) == Cardinality({j \in byKey : obj[j][1] < obj[i][1]}) + 1
      entries == [r \in 1..Len(obj) |-> obj[CHOOSE i \in byKey : rank(i) = r]]
  IN sortLoop(entries, 1, <<>>)

sortByValue(obj) == sortLoop(obj, 1, <<>>)

analyzeStart ==
  [syllables |-> <<>>, choFreq |-> <<>>, jungFreq |-> <<>>, jongFreq |-> <<>>,
   totalSyllables |-> 0, withJong |-> 0,
   brightVowels |-> 0, darkVowels |-> 0, neutralVowels |-> 0]

analyzeStepCountAll(acc, c) ==
  LET s == decompose(c)
  IN IF s = NULL THEN [acc EXCEPT !.totalSyllables = @ + 1]
     ELSE [acc EXCEPT
             !.syllables = Append(@, s),
             !.totalSyllables = @ + 1,
             !.choFreq = Incr(@, s.cho),
             !.jungFreq = Incr(@, s.jung),
             !.jongFreq = IF Truthy(s.jong) THEN Incr(@, s.jong) ELSE @,
             !.withJong = IF Truthy(s.jong) THEN @ + 1 ELSE @,
             !.brightVowels = IF s.jung \in VOWEL_BRIGHT THEN @ + 1 ELSE @,
             !.darkVowels = IF s.jung \notin VOWEL_BRIGHT /\ s.jung \in VOWEL_DARK
                            THEN @ + 1 ELSE @,
             !.neutralVowels = IF s.jung \notin VOWEL_BRIGHT /\ s.jung \notin VOWEL_DARK
                               THEN @ + 1 ELSE @]

\* the body of the loop over the characters of the text
analyzeStep(acc, c) ==
  LET s == decompose(c)
  IN IF s = NULL THEN acc
     ELSE [acc EXCEPT
             !.syllables = Append(@, s),
             !.totalSyllables = @ + 1,
             !.choFreq = Incr(@, s.cho),
             !.jungFreq = Incr(@, s.jung),
             !.jongFreq = IF Truthy(s.jong) THEN Incr(@, s.jong) ELSE @,
             !.withJong = IF Truthy(s.jong) THEN @ + 1 ELSE @,
             !.brightVowels = IF s.jung \in VOWEL_BRIGHT THEN @ + 1 ELSE @,
             !.darkVowels = IF s.jung \notin VOWEL_BRIGHT /\ s.jung \in VOWEL_DARK
                            THEN @ + 1 ELSE @,
             !.neutralVowels = IF s.jung \notin VOWEL_BRIGHT /\ s.jung \notin VOWEL_DARK
                               THEN @ + 1 ELSE @]

RECURSIVE analyzeLoop(_, _, _)
analyzeLoop(t, i, acc) ==
  IF i > Len(t) THEN acc
  ELSE analyzeLoop(t, i + 1, analyzeStep(acc, t[i]))

\* jongRatio is the exact fraction <<numerator, denominator>>
analyze(t) ==
  LET a == analyzeLoop(t, 1, analyzeStart)
  IN [syllables |-> a.syllables,
      totalSyllables |-> a.totalSyllables,
      withJong |-> a.withJong,
      withoutJong |-> a.totalSyllables - a.withJong,
      jongRatio |-> IF a.totalSyllables # 0
                    THEN <<a.withJong, a.totalSyllables>> ELSE <<0, 1>>,
      choFreq |-> sortByValue(a.choFreq),
      jungFreq |-> sortByValue(a.jungFreq),
      jongFreq |-> sortByValue(a.jongFreq),
      vowelHarmony |->
        [bright |-> a.brightVowels,
         dark |-> a.darkVowels,
         neutral |-> a.neutralVowels,
         tendency |-> IF a.brightVowels > a.darkVowels THEN "bright"
                      ELSE IF a.darkVowels > a.brightVowels THEN "dark"
                      ELSE "balanced"]]

(***************************************************************************)
(* Input texts: every string of at most MaxLen characters over an alphabet *)
(* of four syllables (open bright 가, open dark 너, closed bright 한,      *)
(* closed neutral 글), a Latin letter, a space and a line feed.            *)
(***************************************************************************)
MaxLen == 4

Alphabet == {44032, 45320, 54620, 44544, 65, 32, 10}

Strings(alphabet, n) == UNION {[1..k -> alphabet] : k \in 0..n}

Texts == Strings(Alphabet, MaxLen)

\* analyze(text)
CallAnalyze ==
  /\ pc = "idle"
  /\ \E t \in Texts :
       /\ text' = t
       /\ result' = analyze(t)
  /\ pc' = "analyzed"
  /\ UNCHANGED <<ch, d, args, composed, textB, fp, fpA, fpB, sim, simBA,
               rhymes, wordPatterns, structure, argv, exitCode, stdout, stderr>>

NextAnalyze == CallAnalyze

SpecAnalyze == Init /\ [][NextAnalyze]_vars

(***************************************************************************)
(* C4: count conservation. For any text, withJong + withoutJong equals     *)
(* totalSyllables, and the bright, dark and neutral vowel counts sum to    *)
(* totalSyllables.                                                         *)
(***************************************************************************)
C4_CountConservation ==
  pc = "analyzed" =>
    /\ result.withJong + result.withoutJong = result.totalSyllables
    /\ result.vowelHarmony.bright + result.vowelHarmony.dark
         + result.vowelHarmony.neutral = result.totalSyllables

C4_Witness ==
  /\ pc = "analyzed"
  /\ text = <<44032, 45320, 44544, 65>>
  /\ result.totalSyllables = 3
  /\ result.withJong = 1 /\ result.withoutJong = 2
  /\ result.vowelHarmony.bright = 1
  /\ result.vowelHarmony.dark = 1
  /\ result.vowelHarmony.neutral = 1

(***************************************************************************)
(* C5: analyze skips non-Hangul characters. The syllable list is the       *)
(* in-order subsequence of the characters of the text in the syllable      *)
(* block, totalSyllables is its length, and a text without syllables gives *)
(* zero counts, jongRatio 0 and empty frequency mappings.                  *)
(***************************************************************************)
InBlock(c) == c >= 44032 /\ c <= 55203

C5_SkipsNonHangul ==
  pc = "analyzed" =>
    LET syl == SelectSeq(text, InBlock)
    IN /\ Len(result.syllables) = Len(syl)
       /\ \A i \in 1..Len(syl) : result.syllables[i].syllable = syl[i]
       /\ result.totalSyllables = Len(syl)
       /\ Len(syl) = 0 =>
            /\ result.withJong = 0
            /\ result.withoutJong = 0
            /\ result.jongRatio[1] = 0
            /\ result.choFreq = <<>>
            /\ result.jungFreq = <<>>
            /\ result.jongFreq = <<>>
            /\ result.vowelHarmony.bright = 0
            /\ result.vowelHarmony.dark = 0
            /\ result.vowelHarmony.neutral = 0

C5_Witness ==
  /\ pc = "analyzed"
  /\ text = <<65, 54620, 32, 44032>>
  /\ result.totalSyllables = 2
  /\ result.syllables[1].syllable = 54620
  /\ result.syllables[2].syllable = 44032

(***************************************************************************)
(* C6 (as stated): each frequency mapping lists its symbols in             *)
(* non-increasing count order, symbols with equal counts in the order of   *)
(* the corresponding jamo table.                                           *)
(***************************************************************************)
NonIncreasing(obj) ==
  \A i \in 1..(Len(obj) - 1) : obj[i][2] >= obj[i + 1][2]

TiesInTableOrder(obj, tbl) ==
  \A i \in 1..(Len(obj) - 1) :
    obj[i][2] = obj[i + 1][2] =>
      IndexOf(tbl, obj[i][1]) < IndexOf(tbl, obj[i + 1][1])

C6_Original ==
  pc = "analyzed" =>
    /\ NonIncreasing(result.choFreq)
    /\ NonIncreasing(result.jungFreq)
    /\ NonIncreasing(result.jongFreq)
    /\ TiesInTableOrder(result.choFreq, CHOSEONG)
    /\ TiesInTableOrder(result.jungFreq, JUNGSEONG)
    /\ TiesInTableOrder(result.jongFreq, JONGSEONG)

(***************************************************************************)
(* C6 (amended): each frequency mapping lists its symbols in               *)
(* non-increasing count order, symbols with equal counts in the order of   *)
(* their first appearance in the text.                                     *)
(***************************************************************************)
\* position in the text of the first syllable that has symbol k in slot n
\* (1 initial, 2 medial, 3 final)
SlotOf(c, n) ==
  LET code == c - 44032
  IN IF n = 1 THEN CHOSEONG[(code \div 588) + 1]
     ELSE IF n = 2 THEN JUNGSEONG[((code \div 28) % 21) + 1]
     ELSE JONGSEONG[(code % 28) + 1]

FirstSeen(t, k, n) ==
  CHOOSE i \in 1..Len(t) :
    /\ InBlock(t[i]) /\ SlotOf(t[i], n) = k
    /\ \A j \in 1..(i - 1) : ~(InBlock(t[j]) /\ SlotOf(t[j], n) = k)

TiesInFirstSeenOrder(obj, t, n) ==
  \A i \in 1..(Len(obj) - 1) :
    obj[i][2] = obj[i + 1][2] =>
      FirstSeen(t, obj[i][1], n) < FirstSeen(t, obj[i + 1][1], n)

C6_Amended ==
  pc = "analyzed" =>
    /\ NonIncreasing(result.choFreq)
    /\ NonIncreasing(result.jungFreq)
    /\ NonIncreasing(result.jongFreq)
    /\ TiesInFirstSeenOrder(result.choFreq, text, 1)
    /\ TiesInFirstSeenOrder(result.jungFreq, text, 2)
    /\ TiesInFirstSeenOrder(result.jongFreq, text, 3)

C6_Witness ==
  /\ pc = "analyzed"
  /\ text = <<45320, 44032, 44032, 54620>>
  /\ result.choFreq = <<<<12593, 2>>, <<12596, 1>>, <<12622, 1>>>>
  /\ result.jungFreq = <<<<12623, 3>>, <<12627, 1>>>>

(***************************************************************************)
(* Exact arithmetic. JavaScript Numbers are modelled by exact values: the  *)
(* integers that occur exceed the checker's machine integers, so a natural *)
(* number is a little-endian sequence of digits in base LimbBase (<<>> is  *)
(* zero, no leading zero digit).                                           *)
(***************************************************************************)
LimbBase == 10000

RECURSIVE BigOf(_)
BigOf(n) == IF n = 0 THEN <<>> ELSE <<n % LimbBase>> \o BigOf(n \div LimbBase)

RECURSIVE BigCarry(_, _, _)
BigCarry(raw, i, carry) ==
  IF i > Len(raw) THEN BigOf(carry)
  ELSE <<(raw[i] + carry) % LimbBase>>
         \o BigCarry(raw, i + 1, (raw[i] + carry) \div LimbBase)

RECURSIVE BigTrim(_)
BigTrim(a) ==
  IF Len(a) > 0 /\ a[Len(a)] = 0 THEN BigTrim(SubSeq(a, 1, Len(a) - 1)) ELSE a

BigLimb(a, i) == IF i >= 1 /\ i <= Len(a) THEN a[i] ELSE 0

BigAdd(a, b) ==
  LET n == IF Len(a) > Len(b) THEN Len(a) ELSE Len(b)
  IN BigTrim(BigCarry([i \in 1..n |-> BigLimb(a, i) + BigLimb(b, i)], 1, 0))

RECURSIVE BigConv(_, _, _, _)
BigConv(a, b, k, i) ==
  IF i > Len(a) THEN 0
  ELSE a[i] * BigLimb(b, k + 1 - i) + BigConv(a, b, k, i + 1)

BigMul(a, b) ==
  IF Len(a) = 0 \/ Len(b) = 0 THEN <<>>
  ELSE BigTrim(BigCarry([k \in 1..(Len(a) + Len(b) - 1) |-> BigConv(a, b, k, 1)], 1, 0))

RECURSIVE BigLeqFrom(_, _, _)
BigLeqFrom(a, b, i) ==
  IF i = 0 THEN TRUE
  ELSE IF a[i] # b[i] THEN a[i] < b[i]
  ELSE BigLeqFrom(a, b, i - 1)

BigLeq(a, b) ==
  IF Len(a) # Len(b) THEN Len(a) < Len(b) ELSE BigLeqFrom(a, b, Len(a))

BigSquare(n) == BigMul(BigOf(n), BigOf(n))

\* Math.round(x * f) for x = num / den, den > 0: the nearest integer, a half
\* going up; the result counts units of 1/f
roundFraction(num, den, f) == (2 * num * f + den) \div (2 * den)

RECURSIVE BigBorrow(_, _, _, _)
BigBorrow(a, b, i, borrow) ==
  IF i > Len(a) THEN <<>>
  ELSE LET x == a[i] - BigLimb(b, i) - borrow
       IN <<IF x < 0 THEN x + LimbBase ELSE x>>
            \o BigBorrow(a, b, i + 1, IF x < 0 THEN 1 ELSE 0)

\* a - b for b <= a
BigSub(a, b) == BigTrim(BigBorrow(a, b, 1, 0))

(***************************************************************************)
(* Fingerprint. The profiles are kept as the counts per table entry, their *)
(* common denominator being totalSyllables. The two entropy-based          *)
(* diversity scores are left out: they need log2, and neither compare nor  *)
(* any property checked here reads them.                                   *)
(***************************************************************************)
\* the characters String.prototype.trim strips
WhiteSpace ==
  {9, 10, 11, 12, 13, 32, 160, 5760, 8232, 8233, 8239, 8287, 12288, 65279}
    \cup (8192..8202)

\* l.trim() is truthy
NonBlank(l) == \E i \in 1..Len(l) : l[i] \notin WhiteSpace

RECURSIVE split(_, _)
split(t, sep) ==
  IF \A i \in 1..Len(t) : t[i] # sep THEN <<t>>
  ELSE LET i == CHOOSE k \in 1..Len(t) :
                  t[k] = sep /\ \A j \in 1..(k - 1) : t[j] # sep
       IN <<SubSeq(t, 1, i - 1)>> \o split(SubSeq(t, i + 1, Len(t)), sep)

RECURSIVE Sum(_)
Sum(s) == IF Len(s) = 0 THEN 0 ELSE s[1] + Sum(Tail(s))

IsPositive(n) == n > 0

\* syllables per non-blank line, lines without a syllable dropped
lineLengths(t) ==
  LET lines == SelectSeq(split(t, 10), NonBlank)
      counts == [i \in 1..Len(lines) |-> Len(SelectSeq(lines[i], isSyllable))]
  IN SelectSeq(counts, IsPositive)

\* the largest k in lo..hi with 1000 * sqrt(n) / s <= 1000.5 - k, that is
\* Math.round(1000 * (1 - sqrt(n) / s)); n4 is 4000000 * n
RECURSIVE rhythmSearch(_, _, _, _)
rhythmSearch(n4, s, lo, hi) ==
  IF lo >= hi THEN lo
  ELSE LET mid == (lo + hi + 1) \div 2
       IN IF BigLeq(n4, BigSquare((2001 - 2 * mid) * s))
          THEN rhythmSearch(n4, s, mid, hi)
          ELSE rhythmSearch(n4, s, lo, mid - 1)

rhythmRegularityUnclamped(lengths) ==
  LET count == Len(lengths)
      total == Sum(lengths)
      squares == Sum([i \in 1..count |-> lengths[i] * lengths[i]])
      n == IF count > 1 THEN count * squares - total * total ELSE 0
  IN IF total = 0 THEN 0
     ELSE rhythmSearch(BigMul(BigOf(4000000), BigOf(n)), total, -3000, 1000)

\* round(rhythmRegularity, 3), in thousandths. With avg = total / count and
\* variance = (count * squares - total^2) / count^2, sqrt(variance) / avg is
\* sqrt(n) / total for n = count * squares - total^2.
rhythmRegularity(lengths) ==
  LET count == Len(lengths)
      total == Sum(lengths)
      squares == Sum([i \in 1..count |-> lengths[i] * lengths[i]])
      n == IF count > 1 THEN count * squares - total * total ELSE 0
  IN IF total = 0 THEN 0
     ELSE IF n >= total * total THEN 0
     ELSE rhythmSearch(BigMul(BigOf(4000000), BigOf(n)), total, 0, 1000)

\* round(avgLineLength, 1), in tenths
avgLineLength(lengths) ==
  IF Len(lengths) # 0 THEN roundFraction(Sum(lengths), Len(lengths), 10) ELSE 0

\* round(brightness, 3), in thousandths
brightness(bright, dark) ==
  roundFraction(bright - dark, IF bright + dark # 0 THEN bright + dark ELSE 1, 1000)

Min(a, b) == IF a < b THEN a ELSE b

fingerprintOfEmpty(t) ==
  LET r == analyze(t)
  IN [totalSyllables |-> r.totalSyllables,
      brightness |-> brightness(r.vowelHarmony.bright, r.vowelHarmony.dark),
      weight |-> roundFraction(r.jongRatio[1], r.jongRatio[2], 1000),
      rhythmRegularity |-> rhythmRegularity(lineLengths(t)),
      avgLineLength |-> avgLineLength(lineLengths(t)),
      choProfile |-> [i \in 1..Len(CHOSEONG) |-> CountOf(r.choFreq, CHOSEONG[i])],
      jungProfile |-> [i \in 1..Len(JUNGSEONG) |-> CountOf(r.jungFreq, JUNGSEONG[i])],
      topCho |-> SubSeq(Keys(r.choFreq), 1, Min(3, Len(r.choFreq))),
      topJung |-> SubSeq(Keys(r.jungFreq), 1, Min(3, Len(r.jungFreq)))]

fingerprint(t) ==
  LET r == analyze(t)
  IN IF r.totalSyllables = 0 THEN NULL
     ELSE [totalSyllables |-> r.totalSyllables,
           brightness |-> brightness(r.vowelHarmony.bright, r.vowelHarmony.dark),
           weight |-> roundFraction(r.jongRatio[1], r.jongRatio[2], 1000),
           rhythmRegularity |-> rhythmRegularity(lineLengths(t)),
           avgLineLength |-> avgLineLength(lineLengths(t)),
           choProfile |-> [i \in 1..Len(CHOSEONG) |-> CountOf(r.choFreq, CHOSEONG[i])],
           jungProfile |-> [i \in 1..Len(JUNGSEONG) |-> CountOf(r.jungFreq, JUNGSEONG[i])],
           topCho |-> SubSeq(Keys(r.choFreq), 1, Min(3, Len(r.choFreq))),
           topJung |-> SubSeq(Keys(r.jungFreq), 1, Min(3, Len(r.jungFreq)))]

(***************************************************************************)
(* Comparator. A feature vector is kept multiplied by 1000 * totalSyllables*)
(* (the common denominator of its entries), which makes every entry an     *)
(* integer and leaves the cosine unchanged.                                *)
(***************************************************************************)
featureVector(f) ==
  [i \in 1..Len(CHOSEONG) |-> 1000 * f.choProfile[i]]
    \o [i \in 1..Len(JUNGSEONG) |-> 1000 * f.jungProfile[i]]
    \o <<f.brightness * f.totalSyllables,
         f.weight * f.totalSyllables,
         f.rhythmRegularity * f.totalSyllables>>

Abs(n) == IF n < 0 THEN -n ELSE n

\* the sum of |a[i] * b[i]| over the entries whose product has the given sign
RECURSIVE BigDot(_, _, _, _)
BigDot(a, b, i, sign) ==
  IF i > Len(a) THEN <<>>
  ELSE IF a[i] * b[i] * sign > 0
       THEN BigAdd(BigOf(Abs(a[i] * b[i])), BigDot(a, b, i + 1, sign))
       ELSE BigDot(a, b, i + 1, sign)

cosineSimilarityNoSqrt(a, b) ==
  LET magA == BigDot(a, a, 1, 1)
      magB == BigDot(b, b, 1, 1)
      pos == BigDot(a, b, 1, 1)
      neg == BigDot(a, b, 1, -1)
  IN [zero |-> magA = <<>> \/ magB = <<>>,
      negative |-> ~BigLeq(neg, pos),
      dot |-> IF BigLeq(neg, pos) THEN BigSub(pos, neg) ELSE BigSub(neg, pos),
      denomSquared |-> BigMul(BigMul(magA, magB), BigMul(magA, magB))]

\* normalises by the magnitude of the first vector alone
cosineSimilarityByFirst(a, b) ==
  LET magA == BigDot(a, a, 1, 1)
      magB == BigDot(b, b, 1, 1)
      pos == BigDot(a, b, 1, 1)
      neg == BigDot(a, b, 1, -1)
  IN [zero |-> magA = <<>> \/ magB = <<>>,
      negative |-> ~BigLeq(neg, pos),
      dot |-> IF BigLeq(neg, pos) THEN BigSub(pos, neg) ELSE BigSub(neg, pos),
      denomSquared |-> BigMul(magA, magA)]

\* The exact value of dot / (sqrt(magA) * sqrt(magB)): its sign, |dot| and
\* the square of the denominator; zero when the denominator is 0.
cosineSimilarity(a, b) ==
  LET magA == BigDot(a, a, 1, 1)
      magB == BigDot(b, b, 1, 1)
      pos == BigDot(a, b, 1, 1)
      neg == BigDot(a, b, 1, -1)
  IN [zero |-> magA = <<>> \/ magB = <<>>,
      negative |-> ~BigLeq(neg, pos),
      dot |-> IF BigLeq(neg, pos) THEN BigSub(pos, neg) ELSE BigSub(neg, pos),
      denomSquared |-> BigMul(magA, magB)]

\* (2k - 1) * denom <= 20000 * dot, that is k <= 10000 * cos + 1/2
roundsAtLeast(c, x, k) ==
  LET a == BigMul(BigSquare(Abs(2 * k - 1)), c.denomSquared)
  IN IF c.negative THEN 2 * k - 1 <= 0 /\ BigLeq(x, a)
     ELSE 2 * k - 1 <= 0 \/ BigLeq(a, x)

RECURSIVE roundSearch(_, _, _, _)
roundSearch(c, x, lo, hi) ==
  IF lo >= hi THEN lo
  ELSE LET mid == (lo + hi + 1) \div 2
       IN IF roundsAtLeast(c, x, mid) THEN roundSearch(c, x, mid, hi)
          ELSE roundSearch(c, x, lo, mid - 1)

\* round(c, 4), in units of 1/10000
roundCosine(c) ==
  IF c.zero THEN 0
  ELSE LET x == BigMul(BigSquare(20000), BigMul(c.dot, c.dot))
       IN roundSearch(c, x, -30000, 30000)

\* compare, from the two fingerprints on
compare(fa, fb) ==
  IF fa = NULL \/ fb = NULL THEN NULL
  ELSE [value |-> roundCosine(cosineSimilarity(featureVector(fa), featureVector(fb)))]

(***************************************************************************)
(* Input texts of the fingerprint and of the comparison.                   *)
(*   ShortTexts: every string of at most MaxShortLen characters over       *)
(*     Alphabet;                                                           *)
(*   LineTexts: a run of up to MaxSyllables copies of one syllable (open   *)
(*     가 or closed 한) broken into lines in every possible way, which     *)
(*     reaches line lengths as irregular as 1, 1, 1, 7;                    *)
(*   PairTexts: every string of at most MaxPairLen characters over an open *)
(*     bright syllable (가), a closed dark one (넌) and the line feed; two *)
(*     texts are compared when their lengths add up to MaxPairLen at most. *)
(***************************************************************************)
MaxShortLen == 3

MaxSyllables == 10

MaxPairLen == 5

LineSyllables == {44032, 54620}

PairAlphabet == {44032, 45324, 10}

RECURSIVE brokenRun(_, _, _, _)
brokenRun(c, n, breaks, i) ==
  IF i > n THEN <<>>
  ELSE <<c>> \o (IF i \in breaks THEN <<10>> ELSE <<>>)
         \o brokenRun(c, n, breaks, i + 1)

LineTexts ==
  UNION {{brokenRun(c, n, breaks, 1) : c \in LineSyllables, breaks \in SUBSET (1..(n - 1))} :
           n \in 1..MaxSyllables}

ShortTexts == Strings(Alphabet, MaxShortLen)

PairTexts == Strings(PairAlphabet, MaxPairLen)

\* fingerprint(text)
CallFingerprint ==
  /\ pc = "idle"
  /\ \E t \in ShortTexts \cup LineTexts :
       /\ text' = t
       /\ fp' = fingerprint(t)
  /\ pc' = "fingerprinted"
  /\ UNCHANGED <<ch, d, args, composed, textB, result, fpA, fpB, sim, simBA,
               rhymes, wordPatterns, structure, argv, exitCode, stdout, stderr>>

\* compare(textA, textB); fpA and fpB are its locals
CallCompare ==
  /\ pc = "idle"
  /\ \E a \in PairTexts :
       \E b \in Strings(PairAlphabet, MaxPairLen - Len(a)) :
         /\ text' = a
         /\ textB' = b
         /\ fpA' = fingerprint(a)
         /\ fpB' = fingerprint(b)
  /\ sim' = compare(fpA', fpB')
  /\ pc' = "compared"
  /\ UNCHANGED <<ch, d, args, composed, result, fp, simBA,
               rhymes, wordPatterns, structure, argv, exitCode, stdout, stderr>>

\* compare(text, text)
CallCompareSame ==
  /\ pc = "idle"
  /\ \E t \in PairTexts \cup LineTexts :
       /\ text' = t
       /\ textB' = t
       /\ fpA' = fingerprint(t)
       /\ fpB' = fingerprint(t)
  /\ sim' = compare(fpA', fpB')
  /\ pc' = "compared"
  /\ UNCHANGED <<ch, d, args, composed, result, fp, simBA,
               rhymes, wordPatterns, structure, argv, exitCode, stdout, stderr>>

\* compare(textB, textA), after compare(textA, textB)
CallCompareSwapped ==
  /\ pc = "compared"
  /\ fpA' = fingerprint(textB)
  /\ fpB' = fingerprint(text)
  /\ simBA' = compare(fpA', fpB')
  /\ pc' = "swapped"
  /\ UNCHANGED <<ch, d, args, composed, text, textB, result, fp, sim,
               rhymes, wordPatterns, structure, argv, exitCode, stdout, stderr>>

NextFingerprint == CallFingerprint

SpecFingerprint == Init /\ [][NextFingerprint]_vars

NextCompare == CallFingerprint \/ CallCompare \/ CallCompareSame

SpecCompare == Init /\ [][NextCompare]_vars

NextSymmetry == CallCompare \/ CallCompareSwapped

SpecSymmetry == Init /\ [][NextSymmetry]_vars

(***************************************************************************)
(* C7: fingerprint(T) is absent iff T contains no decomposable syllable,   *)
(* and compare(A, B) is absent iff at least one of A, B contains none;     *)
(* otherwise compare returns a number.                                     *)
(***************************************************************************)
HasSyllable(t) == \E i \in 1..Len(t) : InBlock(t[i])

C7_AbsentIffNoSyllable ==
  /\ pc = "fingerprinted" => (fp = NULL <=> ~HasSyllable(text))
  /\ pc = "compared" =>
       /\ sim = NULL <=> (~HasSyllable(text) \/ ~HasSyllable(textB))
       /\ sim # NULL => sim.value \in Int

C7_Witness ==
  /\ pc = "compared"
  /\ text = <<44032, 10, 45324>>
  /\ textB = <<10, 10>>
  /\ sim = NULL

(***************************************************************************)
(* C8: fingerprint boundedness. For every text with at least one syllable  *)
(* brightness is in [-1, 1] (0 when there is neither a bright nor a dark   *)
(* vowel), weight is in [0, 1] (exactly 0 when every syllable is open) and *)
(* rhythm regularity is in [0, 1]. The values are in thousandths.          *)
(***************************************************************************)
MedialOf(c) == JUNGSEONG[(((c - 44032) \div 28) % 21) + 1]

C8_FingerprintBounded ==
  (pc = "fingerprinted" /\ HasSyllable(text)) =>
    /\ fp # NULL
    /\ fp.brightness >= -1000 /\ fp.brightness <= 1000
    /\ (\A i \in 1..Len(text) :
          InBlock(text[i]) => MedialOf(text[i]) \in VOWEL_NEUTRAL)
         => fp.brightness = 0
    /\ fp.weight >= 0 /\ fp.weight <= 1000
    /\ (\A i \in 1..Len(text) :
          InBlock(text[i]) => (text[i] - 44032) % 28 = 0)
         => fp.weight = 0
    /\ fp.rhythmRegularity >= 0 /\ fp.rhythmRegularity <= 1000

\* line lengths 1, 1, 1, 7: the deviation exceeds the mean and the clamp acts
C8_Witness ==
  /\ pc = "fingerprinted"
  /\ text = <<54620, 10, 54620, 10, 54620, 10,
              54620, 54620, 54620, 54620, 54620, 54620, 54620>>
  /\ fp.rhythmRegularity = 0
  /\ fp.weight = 1000
  /\ fp.brightness = 1000

(***************************************************************************)
(* C9: similarity identity. compare(T, T) is 1 for every text T that       *)
(* contains at least one Hangul syllable. The value is in 1/10000.         *)
(***************************************************************************)
C9_SimilarityIdentity ==
  (pc = "compared" /\ text = textB /\ HasSyllable(text)) =>
    /\ sim # NULL
    /\ sim.value = 10000

C9_Witness ==
  /\ pc = "compared"
  /\ text = <<44032, 10, 45324, 45324>>
  /\ textB = text
  /\ sim = [value |-> 10000]

(***************************************************************************)
(* C10: similarity range. Whenever compare(A, B) is not absent its value   *)
(* lies between 0 and 1 inclusive, for every pair of texts. The value is   *)
(* in 1/10000.                                                             *)
(***************************************************************************)
C10_SimilarityRange ==
  (pc = "compared" /\ sim # NULL) =>
    /\ sim.value >= 0
    /\ sim.value <= 10000

(***************************************************************************)
(* C11: similarity symmetry. compare(A, B) and compare(B, A) are both      *)
(* absent or both the same number, for every pair of texts.                *)
(***************************************************************************)
C11_SimilaritySymmetry ==
  pc = "swapped" => simBA = sim

\* texts of different magnitude and negative similarity
C11_Witness ==
  /\ pc = "swapped"
  /\ text = <<44032>>
  /\ textB = <<45324, 10, 45324, 45324>>
  /\ sim = [value |-> -790]
  /\ simBA = [value |-> -790]

(***************************************************************************)
(* Rhyme detector. The endings object ({key: [syllables]}, in insertion    *)
(* order) is a sequence of <<key, syllables>> entries; a key is the string *)
(* of the medial followed by the final, if any.                            *)
(***************************************************************************)
\* s.jung + (s.jong || '')
endingKey(s) == <<s.jung>> \o (IF Truthy(s.jong) THEN <<s.jong>> ELSE <<>>)

\* the body of the loop over analysis.syllables
groupStep(endings, s) ==
  LET key == endingKey(s)
  IN IF HasKey(endings, key)
     THEN [endings EXCEPT ![KeyPos(endings, key)] = <<key, Append(@[2], s.syllable)>>]
     ELSE Append(endings, <<key, <<s.syllable>>>>)

RECURSIVE groupLoop(_, _, _)
groupLoop(syllables, i, endings) ==
  IF i > Len(syllables) THEN endings
  ELSE groupLoop(syllables, i + 1, groupStep(endings, syllables[i]))

isRhymeOrSingle(e) == Len(e[2]) >= 1

\* .filter(([, v]) => v.length > 1)
isRhyme(e) == Len(e[2]) > 1

\* .sort((a, b) => b[1].length - a[1].length) is a stable sort
InsertByLength(sorted, e) ==
  LET after == {i \in 1..Len(sorted) : Len(sorted[i][2]) >= Len(e[2])}
      n == Cardinality(after)
  IN SubSeq(sorted, 1, n) \o <<e>> \o SubSeq(sorted, n + 1, Len(sorted))

RECURSIVE sortByLength(_, _, _)
sortByLength(entries, i, sorted) ==
  IF i > Len(entries) THEN sorted
  ELSE sortByLength(entries, i + 1, InsertByLength(sorted, entries[i]))

findRhymes(t) ==
  LET analysis == analyze(t)
      endings == groupLoop(analysis.syllables, 1, <<>>)
  IN sortByLength(SelectSeq(endings, isRhyme), 1, <<>>)

(***************************************************************************)
(* Input texts of the rhyme detector: every string of at most MaxRhymeLen  *)
(* characters over two open syllables of one ending (가, 나), two closed   *)
(* ones of another (한, 산), a syllable of a third ending (너) and a Latin *)
(* letter.                                                                 *)
(***************************************************************************)
MaxRhymeLen == 5

RhymeAlphabet == {44032, 45208, 54620, 49328, 45320, 65}

RhymeTexts == Strings(RhymeAlphabet, MaxRhymeLen)

\* findRhymes(text)
CallFindRhymes ==
  /\ pc = "idle"
  /\ \E t \in RhymeTexts :
       /\ text' = t
       /\ rhymes' = findRhymes(t)
  /\ pc' = "rhymed"
  /\ UNCHANGED <<ch, d, args, composed, textB, result, fp, fpA, fpB, sim, simBA,
               wordPatterns, structure, argv, exitCode, stdout, stderr>>

NextRhymes == CallFindRhymes

SpecRhymes == Init /\ [][NextRhymes]_vars

(***************************************************************************)
(* C12: findRhymes returns exactly the ending keys (medial followed by     *)
(* final, or medial alone) that occur on at least 2 syllables of the text; *)
(* each key maps to all syllables with that ending, duplicates included,   *)
(* in order of appearance; the keys are listed in non-increasing group     *)
(* size, ties in first-appearance order of the key.                        *)
(***************************************************************************)
EndingOf(c) ==
  <<MedialOf(c)>> \o (IF (c - 44032) % 28 = 0 THEN <<>>
                      ELSE <<JONGSEONG[((c - 44032) % 28) + 1]>>)

\* the syllables of t that end in k, in order of appearance
Rhyming(t, k) ==
  LET ends(c) == InBlock(c) /\ EndingOf(c) = k
  IN SelectSeq(t, ends)

FirstWith(t, k) ==
  CHOOSE i \in 1..Len(t) :
    /\ InBlock(t[i]) /\ EndingOf(t[i]) = k
    /\ \A j \in 1..(i - 1) : ~(InBlock(t[j]) /\ EndingOf(t[j]) = k)

C12_FindRhymes ==
  pc = "rhymed" =>
    /\ \A i, j \in 1..Len(rhymes) : rhymes[i][1] = rhymes[j][1] => i = j
    /\ {rhymes[i][1] : i \in 1..Len(rhymes)}
         = {EndingOf(text[i]) : i \in {j \in 1..Len(text) :
               InBlock(text[j]) /\ Len(Rhyming(text, EndingOf(text[j]))) >= 2}}
    /\ \A i \in 1..Len(rhymes) : rhymes[i][2] = Rhyming(text, rhymes[i][1])
    /\ \A i \in 1..(Len(rhymes) - 1) :
         /\ Len(rhymes[i][2]) >= Len(rhymes[i + 1][2])
         /\ Len(rhymes[i][2]) = Len(rhymes[i + 1][2])
              => FirstWith(text, rhymes[i][1]) < FirstWith(text, rhymes[i + 1][1])

\* 한가산나너: two groups of two in first-appearance order, 너 left out
C12_Witness ==
  /\ pc = "rhymed"
  /\ text = <<54620, 44032, 49328, 45208, 45320>>
  /\ rhymes = << <<(<<12623, 12596>>), (<<54620, 49328>>)>>,
                 <<(<<12623>>), (<<44032, 45208>>)>> >>

(***************************************************************************)
(* Harmony pattern mapper. A pattern is the string of its symbols, '+'     *)
(* (43), '-' (45) or the middle dot (183).                                 *)
(***************************************************************************)
\* text.split(/\s+/): the pieces between the maximal runs of white space,
\* an empty piece before a leading run and after a trailing one
RECURSIVE splitWhiteSpace(_)
splitWhiteSpace(t) ==
  IF \A i \in 1..Len(t) : t[i] \notin WhiteSpace THEN <<t>>
  ELSE LET i == CHOOSE k \in 1..Len(t) :
                  t[k] \in WhiteSpace /\ \A j \in 1..(k - 1) : t[j] \notin WhiteSpace
           j == CHOOSE k \in i..Len(t) :
                  /\ \A m \in i..k : t[m] \in WhiteSpace
                  /\ k = Len(t) \/ t[k + 1] \notin WhiteSpace
       IN <<SubSeq(t, 1, i - 1)>> \o splitWhiteSpace(SubSeq(t, j + 1, Len(t)))

\* the body of the loop over the characters of a word
harmonyStep(pattern, c) ==
  LET s == decompose(c)
  IN IF s = NULL THEN pattern
     ELSE IF s.jung \in VOWEL_BRIGHT THEN Append(pattern, 43)
     ELSE IF s.jung \in VOWEL_DARK THEN Append(pattern, 45)
     ELSE Append(pattern, 183)

RECURSIVE harmonyPattern(_, _, _)
harmonyPattern(word, i, pattern) ==
  IF i > Len(word) THEN pattern
  ELSE harmonyPattern(word, i + 1, harmonyStep(pattern, word[i]))

hasPatternOrNone(pattern) == Len(pattern) >= 0

\* pattern.length > 0
hasPattern(pattern) == Len(pattern) > 0

RECURSIVE harmonyLoop(_, _, _)
harmonyLoop(words, i, out) ==
  IF i > Len(words) THEN out
  ELSE LET pattern == harmonyPattern(words[i], 1, <<>>)
       IN harmonyLoop(words, i + 1,
            IF hasPattern(pattern)
            THEN Append(out, [word |-> words[i], pattern |-> pattern])
            ELSE out)

\* the result of analyze(text) is not used
vowelHarmonyAnalysis(t) == harmonyLoop(splitWhiteSpace(t), 1, <<>>)

(***************************************************************************)
(* Input texts of the harmony mapper and of the structure encoder: every   *)
(* string of at most MaxWordsLen characters over a bright (가), a dark     *)
(* (넌, closed) and a neutral (글, closed) syllable, a Latin letter, a     *)
(* space and an ideographic space.                                         *)
(***************************************************************************)
MaxWordsLen == 5

WordsAlphabet == {44032, 45324, 44544, 65, 32, 12288}

WordsTexts == Strings(WordsAlphabet, MaxWordsLen)

\* vowelHarmonyAnalysis(text)
CallVowelHarmonyAnalysis ==
  /\ pc = "idle"
  /\ \E t \in WordsTexts :
       /\ text' = t
       /\ wordPatterns' = vowelHarmonyAnalysis(t)
  /\ pc' = "harmonised"
  /\ UNCHANGED <<ch, d, args, composed, textB, result, fp, fpA, fpB, sim, simBA,
               rhymes, structure, argv, exitCode, stdout, stderr>>

NextHarmony == CallVowelHarmonyAnalysis

SpecHarmony == Init /\ [][NextHarmony]_vars

(***************************************************************************)
(* C13: vowelHarmonyAnalysis returns, in original order, one (word,        *)
(* pattern) entry for each whitespace-separated word that contains at      *)
(* least one syllable and none for other words or empty tokens; a pattern  *)
(* has exactly one symbol per syllable of the word, in syllable order      *)
(* ('+' bright, '-' dark, middle dot neutral); non-syllable characters     *)
(* contribute nothing and no pattern is empty.                             *)
(***************************************************************************)
IsBlank(c) ==
  c \in {9, 10, 11, 12, 13, 32, 160, 5760, 8232, 8233, 8239, 8287, 12288, 65279}
    \/ (c >= 8192 /\ c <= 8202)

\* the positions where a word with a syllable starts, and where it ends
WordEnd(t, i) ==
  CHOOSE j \in i..Len(t) :
    /\ \A m \in i..j : ~IsBlank(t[m])
    /\ j = Len(t) \/ IsBlank(t[j + 1])

WordStarts(t) ==
  {i \in 1..Len(t) :
     /\ ~IsBlank(t[i])
     /\ i = 1 \/ IsBlank(t[i - 1])
     /\ \E m \in i..WordEnd(t, i) : InBlock(t[m])}

SymbolOf(c) ==
  IF MedialOf(c) \in VOWEL_BRIGHT THEN 43
  ELSE IF MedialOf(c) \in VOWEL_DARK THEN 45
  ELSE 183

C13_HarmonyPatterns ==
  pc = "harmonised" =>
    /\ Len(wordPatterns) = Cardinality(WordStarts(text))
    /\ \A i \in WordStarts(text) :
         LET k == Cardinality({j \in WordStarts(text) : j <= i})
             word == SubSeq(text, i, WordEnd(text, i))
             syl == SelectSeq(word, InBlock)
         IN /\ wordPatterns[k].word = word
            /\ Len(wordPatterns[k].pattern) = Len(syl)
            /\ \A n \in 1..Len(syl) : wordPatterns[k].pattern[n] = SymbolOf(syl[n])
    /\ \A k \in 1..Len(wordPatterns) : Len(wordPatterns[k].pattern) >= 1

\* 'A 가A넌': a word without a syllable and a word whose letter leaves no
\* gap in the pattern
C13_Witness ==
  /\ pc = "harmonised"
  /\ text = <<65, 32, 44032, 65, 45324>>
  /\ wordPatterns = <<[word |-> <<44032, 65, 45324>>, pattern |-> <<43, 45>>]>>

(***************************************************************************)
(* Structural pattern encoder. A token is a string: "CVC" (67, 86, 67),    *)
(* "CV" or a literal character.                                            *)
(***************************************************************************)
structureStepKeepBlank(tokens, c) ==
  LET s == decompose(c)
  IN IF s = NULL THEN Append(tokens, <<c>>)
     ELSE Append(tokens, IF s.hasJong THEN <<67, 86, 67>> ELSE <<67, 86>>)

\* the body of the loop over the characters of the text
structureStep(tokens, c) ==
  LET s == decompose(c)
  IN IF s = NULL
     THEN (IF c \notin WhiteSpace THEN Append(tokens, <<c>>) ELSE tokens)
     ELSE Append(tokens, IF s.hasJong THEN <<67, 86, 67>> ELSE <<67, 86>>)

RECURSIVE structureLoop(_, _, _)
structureLoop(t, i, tokens) ==
  IF i > Len(t) THEN tokens
  ELSE structureLoop(t, i + 1, structureStep(tokens, t[i]))

\* Array.prototype.join
RECURSIVE join(_, _)
join(tokens, sep) ==
  IF Len(tokens) = 0 THEN <<>>
  ELSE IF Len(tokens) = 1 THEN tokens[1]
  ELSE tokens[1] \o <<sep>> \o join(Tail(tokens), sep)

structuralPattern(t) == join(structureLoop(t, 1, <<>>), 32)

\* structuralPattern(text)
CallStructuralPattern ==
  /\ pc = "idle"
  /\ \E t \in WordsTexts :
       /\ text' = t
       /\ structure' = structuralPattern(t)
  /\ pc' = "structured"
  /\ UNCHANGED <<ch, d, args, composed, textB, result, fp, fpA, fpB, sim, simBA,
               rhymes, wordPatterns, argv, exitCode, stdout, stderr>>

NextStructure == CallStructuralPattern

SpecStructure == Init /\ [][NextStructure]_vars

(***************************************************************************)
(* C14: structuralPattern emits, in text order and joined by single        *)
(* spaces, exactly one token per non-blank character: CVC for a syllable   *)
(* with a final, CV for a syllable without one, the character itself for   *)
(* any other non-blank character; a blank character gives no token and no  *)
(* placeholder.                                                            *)
(***************************************************************************)
IsVisible(c) == ~IsBlank(c)

TokenOf(c) ==
  IF InBlock(c) THEN (IF (c - 44032) % 28 # 0 THEN <<67, 86, 67>> ELSE <<67, 86>>)
  ELSE <<c>>

\* the pieces of s between its spaces, none for the empty string
Pieces(s) ==
  IF s = <<>> THEN <<>>
  ELSE LET cuts == <<0>> \o SelectSeq([i \in 1..Len(s) |-> IF s[i] = 32 THEN i ELSE 0],
                                      IsPositive) \o <<Len(s) + 1>>
       IN [k \in 1..(Len(cuts) - 1) |-> SubSeq(s, cuts[k] + 1, cuts[k + 1] - 1)]

C14_StructuralPattern ==
  pc = "structured" =>
    LET visible == SelectSeq(text, IsVisible)
    IN /\ Len(Pieces(structure)) = Len(visible)
       /\ \A k \in 1..Len(visible) : Pieces(structure)[k] = TokenOf(visible[k])

\* '넌 가　A' gives 'CVC CV A'
C14_Witness ==
  /\ pc = "structured"
  /\ text = <<45324, 32, 44032, 12288, 65>>
  /\ structure = <<67, 86, 67, 32, 67, 86, 32, 65>>

(***************************************************************************)
(* Command line. An argument is a string of code units. stdout records     *)
(* which report sections are printed, not their formatted contents; stderr *)
(* records the messages. A missing argument or variable (undefined) is     *)
(* NULL, a string s is [value |-> s].                                      *)
(***************************************************************************)
FlagText == <<45, 116>>

FlagTextLong == <<45, 45, 116, 101, 120, 116>>

FlagHelp == <<45, 104>>

FlagHelpLong == <<45, 45, 104, 101, 108, 112>>

FlagFingerprint == <<45, 102>>

FlagFingerprintLong == <<45, 45, 102, 105, 110, 103, 101, 114, 112, 114, 105, 110, 116>>

FlagRhymes == <<45, 114>>

FlagRhymesLong == <<45, 45, 114, 104, 121, 109, 101, 115>>

FlagStructure == <<45, 115>>

FlagStructureLong == <<45, 45, 115, 116, 114, 117, 99, 116, 117, 114, 101>>

\* the files that exist: p holds two lines of Korean, e is empty
PoemPath == <<112>>

EmptyPath == <<101>>

FileContent(path) ==
  IF path = PoemPath THEN <<44032, 45324, 10, 44032>> ELSE <<>>

FileExists(path) == path \in {PoemPath, EmptyPath}

\* args.includes(f)
hasFlag(argList, f) == \E i \in 1..Len(argList) : argList[i] = f

\* a.startsWith('-')
startsWithDash(a) == Len(a) > 0 /\ a[1] = 45

\* args[i], undefined past the end
argAt(argList, i) ==
  IF i >= 0 /\ i < Len(argList) THEN [value |-> argList[i + 1]] ELSE NULL

\* args.find(a => !a.startsWith('-'))
findFile(argList) ==
  IF \E i \in 1..Len(argList) : ~startsWithDash(argList[i])
  THEN [value |-> argList[CHOOSE i \in 1..Len(argList) :
                     /\ ~startsWithDash(argList[i])
                     /\ \A j \in 1..(i - 1) : startsWithDash(argList[j])]]
  ELSE NULL

\* text, or "throws" when readFileSync does
resolveText(argList) ==
  IF hasFlag(argList, FlagText) \/ hasFlag(argList, FlagTextLong)
  THEN LET idx == IF hasFlag(argList, FlagText) THEN IndexOf(argList, FlagText)
                  ELSE IndexOf(argList, FlagTextLong)
       IN argAt(argList, idx + 1)
  ELSE LET file == findFile(argList)
       IN IF file # NULL /\ file.value # <<>>
          THEN (IF FileExists(file.value) THEN [value |-> FileContent(file.value)]
                ELSE [throws |-> TRUE])
          ELSE NULL

noTextOnlyUndefined(t) == t = NULL

\* !text
noText(t) == t = NULL \/ t.value = <<>>

\* the report sections, from the text on
report(argList, t) ==
  LET fpOnly == hasFlag(argList, FlagFingerprint) \/ hasFlag(argList, FlagFingerprintLong)
      rhymesOnly == hasFlag(argList, FlagRhymes) \/ hasFlag(argList, FlagRhymesLong)
      structOnly == hasFlag(argList, FlagStructure) \/ hasFlag(argList, FlagStructureLong)
      showAll == ~fpOnly /\ ~rhymesOnly /\ ~structOnly
  IN IF (showAll \/ fpOnly) /\ fingerprint(t) = NULL
     THEN <<"no syllables">>
     ELSE IF fpOnly THEN <<"fingerprint">>
     ELSE (IF showAll THEN <<"fingerprint", "analysis">> ELSE <<>>)
            \o (IF (showAll \/ rhymesOnly) /\ Len(findRhymes(t)) > 0
                THEN <<"rhymes">> ELSE <<>>)
            \o (IF showAll \/ structOnly THEN <<"structure">> ELSE <<>>)

cli(argList) ==
  IF Len(argList) = 0 \/ hasFlag(argList, FlagHelp) \/ hasFlag(argList, FlagHelpLong)
  THEN [exitCode |-> 0, stdout |-> <<"usage">>, stderr |-> <<>>]
  ELSE LET t == resolveText(argList)
       IN IF t = [throws |-> TRUE]
          THEN [exitCode |-> 1, stdout |-> <<>>, stderr |-> <<"uncaught error">>]
          ELSE IF noText(t)
          THEN [exitCode |-> 1, stdout |-> <<>>, stderr |-> <<"No text provided">>]
          ELSE [exitCode |-> 0, stdout |-> report(argList, t.value), stderr |-> <<>>]

(***************************************************************************)
(* Argument lists: up to MaxArgs arguments among the text and help flags,  *)
(* three mode flags, the empty string, the paths of the two files and a    *)
(* Korean syllable (an inline text, or the path of a file that is not      *)
(* there).                                                                 *)
(***************************************************************************)
MaxArgs == 3

ArgValues ==
  {FlagText, FlagTextLong, FlagHelp, FlagHelpLong, FlagFingerprint, FlagRhymes,
   FlagStructure, <<>>, PoemPath, EmptyPath, <<44032>>}

ArgLists == Strings(ArgValues, MaxArgs)

\* node cli.js args...
RunCli ==
  /\ pc = "idle"
  /\ \E a \in ArgLists :
       /\ argv' = a
       /\ exitCode' = cli(a).exitCode
       /\ stdout' = cli(a).stdout
       /\ stderr' = cli(a).stderr
  /\ pc' = "exited"
  /\ UNCHANGED <<ch, d, args, composed, text, textB, result, fp, fpA, fpB, sim, simBA,
               rhymes, wordPatterns, structure>>

NextCli == RunCli

SpecCli == Init /\ [][NextCli]_vars

(***************************************************************************)
(* C15 (as stated): the CLI exits with a non-zero status and an error      *)
(* message whenever no text is resolvable: for every argument list that    *)
(* supplies no file path and no inline-text flag value (the empty argument *)
(* list included), and for an empty file or an empty inline argument. It   *)
(* never exits with status 0 in those cases.                               *)
(***************************************************************************)
IsTextFlag(a) == a = <<45, 116>> \/ a = <<45, 45, 116, 101, 120, 116>>

Dashed(a) == a # <<>> /\ Head(a) = 45

\* an argument follows a text flag
SuppliesInline(a) == \E i \in 1..(Len(a) - 1) : IsTextFlag(a[i])

\* a non-empty argument that is neither a flag nor the value of a text flag
SuppliesFile(a) ==
  \E i \in 1..Len(a) :
    /\ a[i] # <<>> /\ ~Dashed(a[i])
    /\ i = 1 \/ ~IsTextFlag(a[i - 1])

\* every inline value is the empty string
EmptyInline(a) ==
  /\ SuppliesInline(a)
  /\ \A i \in 1..(Len(a) - 1) : IsTextFlag(a[i]) => a[i + 1] = <<>>

\* no text flag, and every file path names the empty file
EmptyFile(a) ==
  /\ \A i \in 1..Len(a) : ~IsTextFlag(a[i])
  /\ SuppliesFile(a)
  /\ \A i \in 1..Len(a) : (a[i] # <<>> /\ ~Dashed(a[i])) => a[i] = <<101>>

NoTextResolvable(a) ==
  \/ ~SuppliesFile(a) /\ ~SuppliesInline(a)
  \/ EmptyInline(a)
  \/ EmptyFile(a)

C15_Original ==
  (pc = "exited" /\ NoTextResolvable(argv)) =>
    /\ exitCode # 0
    /\ stderr # <<>>

(***************************************************************************)
(* C15 (amended): with an empty argument list, or one that holds -h or     *)
(* --help, the CLI prints the usage and exits with status 0. Otherwise it  *)
(* exits with status 1 and the message "No text provided" whenever the     *)
(* text it resolves is missing or empty: with -t or --text present, when   *)
(* the argument after the first -t (after the first --text when there is   *)
(* no -t) is missing or empty; without them, when every argument starts    *)
(* with '-' or the first that does not is the empty string or names an     *)
(* empty file. It never exits with status 0 in those cases.                *)
(***************************************************************************)
Least(S) == CHOOSE i \in S : \A j \in S : i <= j

AsksHelp(a) ==
  a = <<>> \/ \E i \in 1..Len(a) : a[i] \in {<<45, 104>>, <<45, 45, 104, 101, 108, 112>>}

Unresolved(a) ==
  LET short == {i \in 1..Len(a) : a[i] = <<45, 116>>}
      long == {i \in 1..Len(a) : a[i] = <<45, 45, 116, 101, 120, 116>>}
      free == {i \in 1..Len(a) : ~Dashed(a[i])}
  IN IF short \cup long # {}
     THEN LET pos == IF short # {} THEN Least(short) ELSE Least(long)
          IN pos = Len(a) \/ a[pos + 1] = <<>>
     ELSE \/ free = {}
          \/ a[Least(free)] = <<>>
          \/ a[Least(free)] = <<101>>

C15_Amended ==
  pc = "exited" =>
    IF AsksHelp(argv)
    THEN exitCode = 0 /\ stdout = <<"usage">> /\ stderr = <<>>
    ELSE Unresolved(argv) =>
           /\ exitCode = 1
           /\ stderr = <<"No text provided">>
           /\ stdout = <<>>

\* -f e: the file is there and empty
C15_Witness ==
  /\ pc = "exited"
  /\ argv = << <<45, 102>>, <<101>> >>
  /\ exitCode = 1
  /\ stderr = <<"No text provided">>

=============================================================================
